---- MODULE Spec2Model ----
(***************************************************************************)
(* The challenge-response authentication server of zk-wallet-verify        *)
(* (src/src/index.ts): POST /init-auth, POST /verify-auth, GET /health     *)
(* over the in-memory challengeStore.                                      *)
(*                                                                         *)
(* A handler runs to its `await c.req.json()`, where other handlers may    *)
(* run, and from there to its response without interruption (one           *)
(* JavaScript thread).  The request body is the input read at the await.   *)
(*                                                                         *)
(* The browser client (src/public/client.ts) is modelled with it: appState *)
(* and the event handlers of the page, each running from one await to the  *)
(* next.                                                                   *)
(***************************************************************************)
EXTENDS Integers, Sequences, FiniteSets, TLC

VARIABLES
    challengeStore, \* Map walletAddress -> { code, timestamp } (or no entry)
    now,            \* the reading Date.now() returns
    awaiting,       \* per route, the handlers suspended at `await c.req.json()`
    request,        \* the request whose handler completed last
    response,       \* the response that handler returned
    delivered,      \* the successful (200) responses of the two POST routes, in order
    appState,       \* the client's appState
    step,           \* the step of the page showStep made visible
    shown,          \* the message of step 3 that is not hidden
    disabled,       \* the `disabled` property of initBtn and verifyBtn
    submits,        \* the submit handlers suspended at `await initAuth(...)`, in order
    verifying,      \* the click handler of verifyBtn: where it is suspended, if it runs
    fetches         \* how many requests the page has sent

serverVars == <<challengeStore, now, awaiting, request, response, delivered>>

clientVars == <<appState, step, shown, disabled, submits, verifying, fetches>>

vars ==
    <<challengeStore, now, awaiting, request, response, delivered,
      appState, step, shown, disabled, submits, verifying, fetches>>

(***************************************************************************)
(* Bounds of the model.                                                    *)
(***************************************************************************)
MaxTime == 1        \* Date.now() ranges over 0..MaxTime
MaxInFlight == 2    \* handlers suspended at their await at one time
MaxDelivered == 3   \* successful responses in one run
MaxFetches == 3     \* requests one page sends

(***************************************************************************)
(* JSON values of a request body and fields of a response.                 *)
(***************************************************************************)
Absent == "<absent>"

NoBytes == [len |-> 0, signer |-> "", msg |-> ""]

\* A JSON string that stands for a wallet address.
JString(s) == [type |-> "string", str |-> s]

JNumber == [type |-> "number", str |-> "42"]

JUndefined == [type |-> "undefined", str |-> ""]

(***************************************************************************)
(* Wallet addresses.                                                       *)
(***************************************************************************)
WHITELIST ==
    << "JYNr9Garqmx8DX9Hszgz6YjVw2ReeoTxpx6Xfj3WPPe",
       "5nBn9euKbPZMSSyRt1r78RhMWYFir6WYP2JZVw9pmpRB" >>

\* A well-formed 32-byte key that is not on the whitelist.
UnlistedAddress == "11111111111111111111111111111111"

\* Not base58 (the character '-'), so no public key.
MalformedAddress == "not-a-wallet"

Whitelisted == { WHITELIST[i] : i \in DOMAIN WHITELIST }

\* The strings that base58-decode to 32 bytes.
KeyStrings == Whitelisted \cup {UnlistedAddress}

AddressStrings == KeyStrings \cup {MalformedAddress}

\* new PublicKey(address): the key's 32 bytes, or a throw.
PublicKey(address) ==
    IF address \in KeyStrings
    THEN [throws |-> FALSE, bytes |-> [len |-> 32, key |-> address]]
    ELSE [throws |-> TRUE, bytes |-> [len |-> 0, key |-> ""]]

\* The format check left out.
isValidWalletAddressAlways(address) == TRUE

\* try { new PublicKey(address); return true } catch { return false }
isValidWalletAddress(address) == ~PublicKey(address).throws

includes(list, x) == \E i \in DOMAIN list : list[i] = x

(***************************************************************************)
(* Challenges and the message to sign.                                     *)
(***************************************************************************)
\* The codes generateChallengeCode may return (six characters of A-Z0-9).
generateChallengeCode == {"Q7K2M9", "ABC123"}

Times == 0..MaxTime

NoChallenge == [code |-> Absent, timestamp |-> -1]

Challenge(code, timestamp) == [code |-> code, timestamp |-> timestamp]

\* The template literal of /init-auth: three lines, the timestamp in base 10.
Message(code, timestamp, walletAddress) ==
    "Verify wallet ownership: " \o code \o "\nTimestamp: " \o ToString(timestamp)
        \o "\nAddress: " \o walletAddress

\* The lines joined by a space.
RebuiltMessageOnOneLine(code, challengeTimestamp, walletAddress) ==
    "Verify wallet ownership: " \o code \o " Timestamp: " \o ToString(challengeTimestamp)
        \o " Address: " \o walletAddress

\* The template literal of /verify-auth, written out a second time in the source.
RebuiltMessage(code, challengeTimestamp, walletAddress) ==
    "Verify wallet ownership: " \o code \o "\nTimestamp: " \o ToString(challengeTimestamp)
        \o "\nAddress: " \o walletAddress

(***************************************************************************)
(* Signatures.  The bytes of an Ed25519 signature are named by the key     *)
(* that made them and the message they were made over; a signature string  *)
(* is the base58 text of some bytes, or text that is not base58.           *)
(***************************************************************************)
\* nacl.sign.detached(message, secretKey of `signer`): 64 bytes.
Sign(signer, msg) == [len |-> 64, signer |-> signer, msg |-> msg]

\* bs58.encode(bytes)
Base58(bytes) == [b58 |-> TRUE, bytes |-> bytes]

NotBase58 == [b58 |-> FALSE, bytes |-> NoBytes]

\* No throw on a character outside the alphabet.
bs58decodeLenient(text) == [throws |-> FALSE, bytes |-> text.bytes]

\* bs58.decode(text): the bytes, or a throw on a character outside the alphabet.
bs58decode(text) == [throws |-> ~text.b58, bytes |-> text.bytes]

\* The message left out of the check.
naclVerifyAnyMessage(message, signature, publicKey) ==
    IF signature.len # 64 \/ publicKey.len # 32
    THEN [throws |-> TRUE, result |-> FALSE]
    ELSE [throws |-> FALSE, result |-> signature.signer = publicKey.key]

\* nacl.sign.detached.verify: throws on a signature that is not 64 bytes or a
\* key that is not 32 bytes, else whether the signature is the key's over the message.
naclVerify(message, signature, publicKey) ==
    IF signature.len # 64 \/ publicKey.len # 32
    THEN [throws |-> TRUE, result |-> FALSE]
    ELSE [throws |-> FALSE,
          result |-> signature.signer = publicKey.key /\ signature.msg = message]

\* The catch answering true.
verifySignatureCatchTrue(message, signature, publicKey) ==
    LET r == naclVerify(message, signature, publicKey)
    IN  IF r.throws THEN TRUE ELSE r.result

\* try { return nacl.sign.detached.verify(...) } catch { return false }
verifySignature(message, signature, publicKey) ==
    LET r == naclVerify(message, signature, publicKey)
    IN  IF r.throws THEN FALSE ELSE r.result

\* A JSON string that stands for a signature.
JSignature(text) == [type |-> "string", str |-> text]

JNumberSig == [type |-> "number", str |-> NotBase58]

JUndefinedSig == [type |-> "undefined", str |-> NotBase58]

(***************************************************************************)
(* Request bodies: what `await c.req.json()` yields.                       *)
(***************************************************************************)
Body(walletAddress, signature) ==
    [json |-> "object", walletAddress |-> walletAddress, signature |-> signature]

\* The JSON text `null`.
NullBody == [json |-> "null", walletAddress |-> JUndefined, signature |-> JUndefinedSig]

\* A JSON value that is not an object, such as 42: it has no fields.
PrimitiveBody == [json |-> "number", walletAddress |-> JUndefined, signature |-> JUndefinedSig]

\* Text that is not JSON: c.req.json() rejects.
UnparsableBody == [json |-> "invalid", walletAddress |-> JUndefined, signature |-> JUndefinedSig]

\* `const { walletAddress, signature } = await c.req.json()` throws on text that
\* is not JSON and on null.
DestructureThrows(body) == body.json \in {"invalid", "null"}

\* !walletAddress || typeof walletAddress !== 'string'
walletAddressMissing(v) == v.type = "undefined" \/ v.type # "string" \/ v.str = ""

\* The check of the signature field left out.
signatureMissingNever(v) == FALSE

\* !signature || typeof signature !== 'string'
signatureMissing(v) == v.type = "undefined" \/ v.type # "string" \/ v.str = Base58(NoBytes)

(***************************************************************************)
(* The inputs of the model.                                                *)
(***************************************************************************)
\* A byte of the message replaced by one no canonical message holds.
Tamper(msg, i) == SubSeq(msg, 1, i - 1) \o "#" \o SubSeq(msg, i + 1, Len(msg))

CanonicalMessages(walletAddress) ==
    { Message(c, t, walletAddress) : c \in generateChallengeCode, t \in Times }

\* The bytes changed: the first of the text and the first of the code.  (A
\* changed timestamp or address is among the near misses below.)
TamperedBytes == {1, 26}

\* Bytes that decode but are no 64-byte signature.
ShortBytes == [len |-> 3, signer |-> "", msg |-> ""]

\* The message of the challenge stored for the address, or of a guessed one.
MessageAt(store, walletAddress) ==
    IF store[walletAddress] = NoChallenge
    THEN Message("Q7K2M9", 0, walletAddress)
    ELSE Message(store[walletAddress].code, store[walletAddress].timestamp, walletAddress)

\* The messages /init-auth has returned for the address so far.
IssuedMessages(history, walletAddress) ==
    { history[i].message :
        i \in { j \in DOMAIN history :
                  /\ history[j].route = "init-auth"
                  /\ history[j].walletAddress = walletAddress } }

\* The signatures of the owner or of another whitelisted key a client may send
\* for the address: the owner's over every message issued for it so far (the
\* current one and the stale ones) and over a guessed one, and another key's
\* over the message at hand.
SignatureValues(store, history, walletAddress) ==
    { JSignature(Base58(Sign(walletAddress, m))) :
        m \in IssuedMessages(history, walletAddress)
                \cup {Message("Q7K2M9", 0, walletAddress)} }
    \cup { JSignature(Base58(Sign(k, MessageAt(store, walletAddress)))) :
             k \in Whitelisted \ {walletAddress} }

\* The signature fields that are no signature of the message at hand: the
\* owner's over it with one byte changed and over the message at hand for
\* another address, text that is not base58, the text of three bytes, the empty
\* string, a number, no field.
NearMisses(store, walletAddress) ==
    { JSignature(Base58(Sign(walletAddress, Tamper(MessageAt(store, walletAddress), i)))) :
        i \in TamperedBytes }
    \cup { JSignature(Base58(Sign(walletAddress, MessageAt(store, k)))) :
             k \in Whitelisted \ {walletAddress} }
    \cup { JSignature(NotBase58), JSignature(Base58(ShortBytes)),
           JSignature(Base58(NoBytes)), JNumberSig, JUndefinedSig }

SomeSignature == JSignature(Base58(Sign(WHITELIST[1], Message("Q7K2M9", 0, WHITELIST[1]))))

InitBodies ==
    { Body(JString(a), JUndefinedSig) : a \in AddressStrings \cup {""} }
    \cup { Body(JNumber, JUndefinedSig), Body(JUndefined, JUndefinedSig),
           NullBody, PrimitiveBody, UnparsableBody }

\* The bodies sent to /verify-auth.  The handler treats every address alike,
\* so the near misses are sent for the first whitelisted address only.
VerifyBodies(store, history) ==
    UNION { { Body(JString(a), s) : s \in SignatureValues(store, history, a) } :
              a \in Whitelisted }
    \cup { Body(JString(WHITELIST[1]), s) : s \in NearMisses(store, WHITELIST[1]) }
    \cup { Body(JString(a), SomeSignature) : a \in {UnlistedAddress, MalformedAddress, ""} }
    \cup { Body(JString(MalformedAddress), JUndefinedSig),
           Body(JString(MalformedAddress), JSignature(NotBase58)) }
    \cup { Body(JNumber, SomeSignature), Body(JUndefined, SomeSignature),
           NullBody, PrimitiveBody, UnparsableBody }

\* A suffix Math.random().toString(36).substring(7) may yield.
RandomSuffixes == {"k3f9x"}

(***************************************************************************)
(* Responses.                                                              *)
(***************************************************************************)
Response(route, status, fields) ==
    [route |-> route, status |-> status,
     error |-> fields.error, success |-> fields.success,
     code |-> fields.code, message |-> fields.message, token |-> fields.token]

NoFields ==
    [error |-> Absent, success |-> Absent, code |-> Absent, message |-> Absent,
     token |-> Absent]

\* c.json({ error }, status)
ErrorJson(route, error, status) ==
    Response(route, status, [NoFields EXCEPT !.error = error])

NoRequest == [route |-> "none", body |-> NullBody]

NoResponse == Response("none", 0, NoFields)

Routes == {"init-auth", "verify-auth"}

InFlight == awaiting["init-auth"] + awaiting["verify-auth"]

(***************************************************************************)
(* The state after the module has loaded.                                  *)
(***************************************************************************)
(***************************************************************************)
(* The client's state.                                                     *)
(***************************************************************************)
\* appState as resetApp leaves it: challengeMessage is not a property of the
\* object literal, sessionToken is null.
resetApp ==
    [walletAddress |-> "", challengeCode |-> "", challengeMessage |-> Absent,
     sessionToken |-> Absent]

\* A submit handler suspended at `await initAuth(walletAddress)`: the address
\* it read from the input, and the response once the server has sent it.
Submitted(walletAddress) ==
    [walletAddress |-> walletAddress, stage |-> "sent", response |-> NoResponse]

\* The click handler of verifyBtn when it does not run.
NotVerifying ==
    [stage |-> "idle", message |-> Absent, body |-> NullBody, response |-> NoResponse]

\* The page once the script has run: its last statement is resetApp().
ClientInit ==
    /\ appState = resetApp
    /\ step = 1
    /\ shown = "none"
    /\ disabled = [initBtn |-> FALSE, verifyBtn |-> FALSE]
    /\ submits = <<>>
    /\ verifying = NotVerifying
    /\ fetches = 0

Init ==
    /\ challengeStore = [a \in AddressStrings |-> NoChallenge]
    /\ now = 0
    /\ awaiting = [r \in Routes |-> 0]
    /\ request = NoRequest
    /\ response = NoResponse
    /\ delivered = <<>>
    /\ ClientInit

\* Time passes.
Tick ==
    /\ now < MaxTime
    /\ now' = now + 1
    /\ UNCHANGED <<challengeStore, awaiting, request, response, delivered>>

\* A request reaches its handler, which runs to `await c.req.json()`.
Receive(route) ==
    /\ InFlight < MaxInFlight
    /\ Len(delivered) + InFlight < MaxDelivered
    /\ awaiting' = [awaiting EXCEPT ![route] = @ + 1]
    /\ UNCHANGED <<challengeStore, now, request, response, delivered>>

\* The handler returns: its response goes out, and a 200 of a POST route is
\* recorded in `delivered` with the address it answers and the message it carries.
Respond(route, body, resp) ==
    /\ awaiting[route] > 0
    /\ awaiting' = [awaiting EXCEPT ![route] = @ - 1]
    /\ request' = [route |-> route, body |-> body]
    /\ response' = resp
    /\ delivered' =
         IF resp.status = 200
         THEN Append(delivered,
                     [route |-> route, walletAddress |-> body.walletAddress.str,
                      message |-> resp.message])
         ELSE delivered

(***************************************************************************)
(* The operations on challengeStore.                                       *)
(***************************************************************************)
\* A challenge already stored is kept.
StoreSetIfAbsent(store, walletAddress, code, timestamp) ==
    IF store[walletAddress] = NoChallenge
    THEN [store EXCEPT ![walletAddress] = Challenge(code, timestamp)]
    ELSE store

\* challengeStore.set(walletAddress, { code, timestamp })
StoreSet(store, walletAddress, code, timestamp) ==
    [store EXCEPT ![walletAddress] = Challenge(code, timestamp)]

\* challengeStore.get(walletAddress)
StoreGet(store, walletAddress) == store[walletAddress]

\* The delete left out.
StoreDeleteForgotten(store, walletAddress) == store

\* challengeStore.delete(walletAddress)
StoreDelete(store, walletAddress) == [store EXCEPT ![walletAddress] = NoChallenge]

(***************************************************************************)
(* POST /init-auth, from the await to the response: the response and the   *)
(* store the handler leaves.                                               *)
(***************************************************************************)
\* The whitelist check left out.
isWhitelistedAlways(walletAddress) == TRUE

\* WHITELIST.includes(walletAddress)
isWhitelisted(walletAddress) == includes(WHITELIST, walletAddress)

InitAuthHandler(store, body, code, timestamp) ==
    LET walletAddress == body.walletAddress IN
    IF DestructureThrows(body)
    THEN [response |-> ErrorJson("init-auth", "Internal server error", 500),
          store |-> store]
    ELSE IF walletAddressMissing(walletAddress)
    THEN [response |-> ErrorJson("init-auth", "walletAddress is required", 400),
          store |-> store]
    ELSE IF ~isValidWalletAddress(walletAddress.str)
    THEN [response |-> ErrorJson("init-auth", "Invalid wallet address format", 400),
          store |-> store]
    ELSE IF ~isWhitelisted(walletAddress.str)
    THEN [response |-> ErrorJson("init-auth", "Wallet address not whitelisted", 403),
          store |-> store]
    ELSE [response |->
              Response("init-auth", 200,
                       [NoFields EXCEPT
                          !.code = code,
                          !.message = Message(code, timestamp, walletAddress.str)]),
          store |-> StoreSet(store, walletAddress.str, code, timestamp)]

InitAuth(body, code) ==
    LET r == InitAuthHandler(challengeStore, body, code, now) IN
    /\ challengeStore' = r.store
    /\ Respond("init-auth", body, r.response)
    /\ UNCHANGED now

(***************************************************************************)
(* POST /verify-auth, from the await to the response.                      *)
(***************************************************************************)
\* `session_${Date.now()}_${Math.random().toString(36).substring(7)}`
MockToken(timestamp, suffix) == "session_" \o ToString(timestamp) \o "_" \o suffix

\* The challenge consumed by a failed attempt too.
VerifiedConsumesAlways(store, walletAddress, verified, timestamp, suffix) ==
    IF verified
    THEN [response |->
              Response("verify-auth", 200,
                       [NoFields EXCEPT
                          !.success = "true",
                          !.token = MockToken(timestamp, suffix),
                          !.message = "Wallet ownership verified successfully"]),
          store |-> [store EXCEPT ![walletAddress] = NoChallenge]]
    ELSE [response |->
              Response("verify-auth", 401,
                       [NoFields EXCEPT
                          !.success = "false",
                          !.error = "Verification failed. Invalid signature."]),
          store |-> [store EXCEPT ![walletAddress] = NoChallenge]]

\* if (verified) { delete, token, success } else { 401 }
Verified(store, walletAddress, verified, timestamp, suffix) ==
    IF verified
    THEN [response |->
              Response("verify-auth", 200,
                       [NoFields EXCEPT
                          !.success = "true",
                          !.token = MockToken(timestamp, suffix),
                          !.message = "Wallet ownership verified successfully"]),
          store |-> StoreDelete(store, walletAddress)]
    ELSE [response |->
              Response("verify-auth", 401,
                       [NoFields EXCEPT
                          !.success = "false",
                          !.error = "Verification failed. Invalid signature."]),
          store |-> store]

\* The inner try block: the message is rebuilt from the stored challenge, the
\* signature decoded and checked against the address's key.
VerifyChallenge(store, walletAddress, signature, challenge, timestamp, suffix) ==
    LET message == RebuiltMessage(challenge.code, challenge.timestamp, walletAddress)
        signatureBytes == bs58decode(signature)
        publicKeyBytes == PublicKey(walletAddress).bytes
    IN  IF signatureBytes.throws
        THEN [response |-> ErrorJson("verify-auth", "Invalid signature format", 400),
              store |-> store]
        ELSE Verified(store, walletAddress,
                      verifySignature(message, signatureBytes.bytes, publicKeyBytes),
                      timestamp, suffix)

\* The check of the lookup left out.
noChallengeNever(challenge) == FALSE

\* if (!challenge)
noChallenge(challenge) == challenge = NoChallenge

VerifyAuthHandler(store, body, timestamp, suffix) ==
    LET walletAddress == body.walletAddress
        signature == body.signature
    IN  IF DestructureThrows(body)
        THEN [response |-> ErrorJson("verify-auth", "Internal server error", 500),
              store |-> store]
        ELSE IF walletAddressMissing(walletAddress)
        THEN [response |-> ErrorJson("verify-auth", "walletAddress is required", 400),
              store |-> store]
        ELSE IF signatureMissing(signature)
        THEN [response |->
                  ErrorJson("verify-auth",
                            "Signature is required for ZK proof verification", 400),
              store |-> store]
        ELSE IF ~isValidWalletAddress(walletAddress.str)
        THEN [response |-> ErrorJson("verify-auth", "Invalid wallet address format", 400),
              store |-> store]
        ELSE IF noChallenge(StoreGet(store, walletAddress.str))
        THEN [response |->
                  ErrorJson("verify-auth",
                            "No challenge found. Please call /init-auth first.", 404),
              store |-> store]
        ELSE VerifyChallenge(store, walletAddress.str, signature.str,
                             StoreGet(store, walletAddress.str), timestamp, suffix)

VerifyAuth(body, suffix) ==
    LET r == VerifyAuthHandler(challengeStore, body, now, suffix) IN
    /\ challengeStore' = r.store
    /\ Respond("verify-auth", body, r.response)
    /\ UNCHANGED now

(***************************************************************************)
(* GET /health: no await, no store access.                                 *)
(***************************************************************************)
\* The probe emptying the store.
HealthResets ==
    /\ request' = [route |-> "health", body |-> NullBody]
    /\ response' = Response("health", 200, NoFields)
    /\ challengeStore' = [a \in AddressStrings |-> NoChallenge]
    /\ UNCHANGED <<now, awaiting, delivered>>

\* The body { status: 'ok', timestamp } has none of the fields of the POST routes.
Health ==
    /\ request' = [route |-> "health", body |-> NullBody]
    /\ response' = Response("health", 200, NoFields)
    /\ UNCHANGED <<challengeStore, now, awaiting, delivered>>

\* The server under any requests; no page is open.
Next ==
    \/ Tick /\ UNCHANGED clientVars
    \/ \E route \in Routes : Receive(route) /\ UNCHANGED clientVars
    \/ \E body \in InitBodies, code \in generateChallengeCode :
          InitAuth(body, code) /\ UNCHANGED clientVars
    \/ \E body \in VerifyBodies(challengeStore, delivered), suffix \in RandomSuffixes :
          VerifyAuth(body, suffix) /\ UNCHANGED clientVars
    \/ Health /\ UNCHANGED clientVars

Spec == Init /\ [][Next]_vars

(***************************************************************************)
(* The server facing a client whose signatures were all made before the    *)
(* server handled its first request: the owner of each whitelisted address *)
(* signed, in advance, messages with a guessed code and timestamp, and     *)
(* /verify-auth is only ever sent those.                                   *)
(***************************************************************************)
PresignedBodies ==
    UNION { { Body(JString(a), JSignature(Base58(Sign(a, m)))) : m \in CanonicalMessages(a) } :
              a \in Whitelisted }

NextPresigned ==
    \/ Tick /\ UNCHANGED clientVars
    \/ \E route \in Routes : Receive(route) /\ UNCHANGED clientVars
    \/ \E body \in InitBodies, code \in generateChallengeCode :
          InitAuth(body, code) /\ UNCHANGED clientVars
    \/ \E body \in PresignedBodies, suffix \in RandomSuffixes :
          VerifyAuth(body, suffix) /\ UNCHANGED clientVars
    \/ Health /\ UNCHANGED clientVars

SpecPresigned == Init /\ [][NextPresigned]_vars

(***************************************************************************)
(* Vocabulary of the properties.                                           *)
(***************************************************************************)
\* A step in which a handler of the route returns: request' and response' are
\* its request and its response, challengeStore the store it found.
Returns(route) == awaiting'[route] < awaiting[route]

\* The field is this string.
IsString(v, s) == v.type = "string" /\ v.str = s

\* The address of a request, when its walletAddress field names a key.
Identities == KeyStrings

\* The signature field a wallet computes over a message with the key of `signer`.
SignatureOver(signer, msg) == JSignature(Base58(Sign(signer, msg)))

\* The message of a stored challenge.
StoredMessage(store, walletAddress) ==
    Message(store[walletAddress].code, store[walletAddress].timestamp, walletAddress)

IsSuccess(resp) ==
    resp.route = "verify-auth" /\ resp.status = 200 /\ resp.success = "true"
        /\ resp.token # Absent

IsNoChallengeFound(resp) ==
    resp.route = "verify-auth" /\ resp.status = 404
        /\ resp.error = "No challenge found. Please call /init-auth first."

IsVerificationFailed(resp) ==
    resp.route = "verify-auth" /\ resp.status = 401
        /\ resp.error = "Verification failed. Invalid signature."

\* The entries of `delivered` that are successful initiates / verifies for the address.
Initiates(walletAddress) ==
    { i \in DOMAIN delivered :
        delivered[i].route = "init-auth" /\ delivered[i].walletAddress = walletAddress }

Successes(walletAddress) ==
    { i \in DOMAIN delivered :
        delivered[i].route = "verify-auth" /\ delivered[i].walletAddress = walletAddress }

(***************************************************************************)
(* C1.  Replay prevention.  When the handler that returned last was a      *)
(* successful initiate for a whitelisted address and the next handler to   *)
(* return is a verify for it carrying the owner's signature over the       *)
(* returned message, that verify succeeds; and when the handler that       *)
(* returned last was a successful verify and the next to return is a       *)
(* verify with the same address and signature, it answers 404 No           *)
(* challenge found.                                                        *)
(***************************************************************************)
C1_FirstVerifySucceeds ==
    \A a \in Whitelisted :
        ( /\ request.route = "init-auth"
          /\ IsString(request.body.walletAddress, a)
          /\ response.status = 200
          /\ Returns("verify-auth")
          /\ request'.body = Body(JString(a), SignatureOver(a, response.message)) )
        => IsSuccess(response')

C1_SecondVerifyNotFound ==
    ( /\ request.route = "verify-auth"
      /\ IsSuccess(response)
      /\ Returns("verify-auth")
      /\ request'.body = request.body )
    => IsNoChallengeFound(response')

C1_ReplayPrevention == [][C1_FirstVerifySucceeds /\ C1_SecondVerifyNotFound]_vars

\* An initiate, a successful verify with the signature over its message, and the
\* same request again, answered 404.
C1_Witness ==
    \E a \in Whitelisted, i \in DOMAIN delivered :
        /\ i + 1 = Len(delivered)
        /\ delivered[i].route = "init-auth" /\ delivered[i].walletAddress = a
        /\ delivered[i + 1].route = "verify-auth" /\ delivered[i + 1].walletAddress = a
        /\ request = [route |-> "verify-auth",
                      body |-> Body(JString(a), SignatureOver(a, delivered[i].message))]
        /\ IsNoChallengeFound(response)

(***************************************************************************)
(* C2.  Authentication soundness.  A response carries a token or           *)
(* success = true only when it is the response of a verify handler that    *)
(* found a challenge stored for the request's address and was given the    *)
(* base58 text of a 64-byte signature, made with that address's key, over  *)
(* the message built from the stored code and timestamp and the address.   *)
(***************************************************************************)
GrantsToken(resp) == resp.token # Absent \/ resp.success = "true"

C2_SoundStep ==
    ( /\ GrantsToken(response')
      /\ \/ <<request, response>>' # <<request, response>>
         \/ \E route \in Routes : Returns(route) )
    => /\ Returns("verify-auth")
       /\ request'.body.json = "object"
       /\ request'.body.walletAddress.type = "string"
       /\ request'.body.walletAddress.str \in Identities
       /\ LET a == request'.body.walletAddress.str IN
            /\ challengeStore[a] # NoChallenge
            /\ request'.body.signature = SignatureOver(a, StoredMessage(challengeStore, a))

C2_AuthenticationSoundness == [][C2_SoundStep]_vars

C2_Witness ==
    /\ request.route = "verify-auth"
    /\ IsSuccess(response)
    /\ challengeStore[request.body.walletAddress.str] = NoChallenge

(***************************************************************************)
(* C3.  A second initiate for an address invalidates its first challenge:  *)
(* a verify carrying the owner's signature over the message an earlier     *)
(* initiate returned, handled after a later initiate for the same address  *)
(* has returned, never succeeds.                                           *)
(***************************************************************************)
C3_StaleSignatureFails ==
    \A a \in Whitelisted :
        ( /\ Returns("verify-auth")
          /\ IsString(request'.body.walletAddress, a)
          /\ \E i, j \in Initiates(a) :
                /\ i < j
                /\ request'.body.signature = SignatureOver(a, delivered[i].message) )
        => ~IsSuccess(response')

C3_SecondInitiateInvalidatesFirst == [][C3_StaleSignatureFails]_vars

(***************************************************************************)
(* C4.  Challenge expiry: a verify that finds a challenge whose age has    *)
(* reached the TTL answers neither 401 Verification failed nor success,    *)
(* and the expired entry is removed.                                       *)
(***************************************************************************)
\* The time to live of a challenge, in units of the clock.
TTL == 1

C4_ExpiredStep ==
    \A a \in Identities :
        ( /\ Returns("verify-auth")
          /\ request'.body.json = "object"
          /\ IsString(request'.body.walletAddress, a)
          /\ request'.body.signature.type = "string"
          /\ request'.body.signature.str.b58
          /\ challengeStore[a] # NoChallenge
          /\ now >= challengeStore[a].timestamp + TTL )
        => /\ ~IsVerificationFailed(response')
           /\ ~IsSuccess(response')
           /\ challengeStore'[a] = NoChallenge

C4_ChallengeExpiry == [][C4_ExpiredStep]_vars

(***************************************************************************)
(* C5.  An initiate for a well-formed address that is not on the whitelist *)
(* answers 403 Wallet address not whitelisted and leaves the store as it   *)
(* was, with no entry for that address.                                    *)
(***************************************************************************)
C5_NotWhitelistedStep ==
    \A b \in KeyStrings \ Whitelisted :
        ( /\ Returns("init-auth")
          /\ request'.body.json = "object"
          /\ IsString(request'.body.walletAddress, b) )
        => /\ response'.route = "init-auth"
           /\ response'.status = 403
           /\ response'.error = "Wallet address not whitelisted"
           /\ challengeStore' = challengeStore
           /\ challengeStore'[b] = NoChallenge

C5_NotWhitelisted == [][C5_NotWhitelistedStep]_vars

C5_Witness ==
    /\ request = [route |-> "init-auth",
                  body |-> Body(JString(UnlistedAddress), JUndefinedSig)]
    /\ response.status = 403
    /\ challengeStore[UnlistedAddress] = NoChallenge
    /\ \E a \in Whitelisted : challengeStore[a] # NoChallenge

(***************************************************************************)
(* C6.  A verify that answers 401 Verification failed leaves the store as  *)
(* it was, the challenge it checked still there; when the next handler to  *)
(* return is a verify for the same address with the owner's signature over *)
(* that challenge's message, it succeeds; and so does any verify with that *)
(* signature that finds the challenge still stored.                        *)
(***************************************************************************)
C6_FailureChangesNothing ==
    ( Returns("verify-auth") /\ IsVerificationFailed(response') )
    => /\ challengeStore' = challengeStore
       /\ challengeStore[request'.body.walletAddress.str] # NoChallenge

C6_RetrySucceeds ==
    \A a \in Identities :
        ( /\ request.route = "verify-auth"
          /\ IsString(request.body.walletAddress, a)
          /\ IsVerificationFailed(response)
          /\ Returns("verify-auth")
          /\ request'.body =
                Body(JString(a), SignatureOver(a, StoredMessage(challengeStore, a))) )
        => IsSuccess(response')

\* As long as the challenge is stored, the owner's signature over its message
\* is accepted.
C6_StoredChallengeVerifies ==
    \A a \in Identities :
        ( /\ Returns("verify-auth")
          /\ challengeStore[a] # NoChallenge
          /\ request'.body =
                Body(JString(a), SignatureOver(a, StoredMessage(challengeStore, a))) )
        => IsSuccess(response')

C6_FailedVerifyKeepsChallenge ==
    [][C6_FailureChangesNothing /\ C6_RetrySucceeds /\ C6_StoredChallengeVerifies]_vars

\* A verify has answered 401 and the challenge it checked is in the store.
C6_Witness ==
    \E a \in Whitelisted :
        /\ request.route = "verify-auth"
        /\ IsString(request.body.walletAddress, a)
        /\ IsVerificationFailed(response)
        /\ challengeStore[a] # NoChallenge
        /\ Initiates(a) # {}

(***************************************************************************)
(* C7.  A verify for an address with a stored challenge, carrying a        *)
(* 64-byte signature made over a message that differs from the message of  *)
(* that challenge (a byte of it changed), answers 401 Verification failed. *)
(***************************************************************************)
C7_TamperedStep ==
    \A a \in Identities :
        ( /\ Returns("verify-auth")
          /\ request'.body.json = "object"
          /\ IsString(request'.body.walletAddress, a)
          /\ challengeStore[a] # NoChallenge
          /\ request'.body.signature.type = "string"
          /\ request'.body.signature.str.b58
          /\ request'.body.signature.str.bytes.len = 64
          /\ request'.body.signature.str.bytes.msg # StoredMessage(challengeStore, a) )
        => IsVerificationFailed(response')

C7_TamperedMessageFails == [][C7_TamperedStep]_vars

\* The owner's signature over the stored message with a byte of the code
\* changed has been answered 401.
C7_Witness ==
    \E a \in Whitelisted :
        /\ challengeStore[a] # NoChallenge
        /\ request = [route |-> "verify-auth",
                      body |-> Body(JString(a),
                                    SignatureOver(a, Tamper(StoredMessage(challengeStore, a), 26)))]
        /\ IsVerificationFailed(response)

(***************************************************************************)
(* C8.  A verify for a well-formed address for which no initiate has       *)
(* succeeded answers 404 No challenge found, whatever non-empty signature  *)
(* string it carries.  (As first stated: whatever signature string.)       *)
(***************************************************************************)
C8_VerifyBeforeInitiate ==
    \A a \in Identities :
        ( /\ request.route = "verify-auth"
          /\ request.body.json = "object"
          /\ IsString(request.body.walletAddress, a)
          /\ request.body.signature.type = "string"
          /\ request.body.signature.str # Base58(NoBytes)
          /\ Initiates(a) = {} )
        => IsNoChallengeFound(response)

C8_AnySignatureString ==
    \A a \in Identities :
        ( /\ request.route = "verify-auth"
          /\ request.body.json = "object"
          /\ IsString(request.body.walletAddress, a)
          /\ request.body.signature.type = "string"
          /\ Initiates(a) = {} )
        => IsNoChallengeFound(response)

\* With a well-formed signature, with text that is not base58, and while
\* another address has a challenge.
C8_Witness ==
    \E a, b \in Whitelisted :
        /\ Initiates(a) = {}
        /\ challengeStore[b] # NoChallenge
        /\ request.route = "verify-auth"
        /\ IsString(request.body.walletAddress, a)
        /\ request.body.signature = SignatureOver(a, Message("Q7K2M9", 0, a))
        /\ IsNoChallengeFound(response)

(***************************************************************************)
(* C9.  No double consume.  With handlers interleaved at their await, for  *)
(* every address the successful verifies, plus one if a challenge is       *)
(* stored, never outnumber the successful initiates; a successful verify   *)
(* finds a challenge and removes it; and the entry of an address changes   *)
(* only in a successful initiate or a successful verify for that address.  *)
(***************************************************************************)
C9_Counts ==
    \A a \in AddressStrings :
        Cardinality(Successes(a)) + (IF challengeStore[a] # NoChallenge THEN 1 ELSE 0)
            <= Cardinality(Initiates(a))

C9_Consumes ==
    ( Returns("verify-auth") /\ IsSuccess(response') )
    => LET a == request'.body.walletAddress.str
       IN  challengeStore[a] # NoChallenge /\ challengeStore'[a] = NoChallenge

C9_Changes ==
    \A a \in AddressStrings :
        challengeStore'[a] # challengeStore[a]
        => /\ IsString(request'.body.walletAddress, a)
           /\ \/ Returns("init-auth") /\ response'.status = 200
              \/ Returns("verify-auth") /\ IsSuccess(response')

C9_NoDoubleConsume ==
    [][ /\ (delivered' # delivered \/ challengeStore' # challengeStore) => C9_Counts'
        /\ C9_Consumes
        /\ C9_Changes ]_vars

\* A verify has succeeded while another verify handler and no other is
\* suspended at its await, every initiate for the address consumed.
C9_Witness ==
    \E a \in Whitelisted :
        /\ awaiting["verify-auth"] >= 1
        /\ request.route = "verify-auth"
        /\ IsString(request.body.walletAddress, a)
        /\ IsSuccess(response)
        /\ challengeStore[a] = NoChallenge
        /\ Cardinality(Successes(a)) = Cardinality(Initiates(a))

(***************************************************************************)
(* C10.  Overwrite on initiate.  When the handler that returned last is a  *)
(* successful initiate, the store holds for its address the challenge      *)
(* whose code and message the response carries, whatever was stored for    *)
(* the address before.                                                     *)
(***************************************************************************)
C10_InitiateOverwrites ==
    ( request.route = "init-auth" /\ response.status = 200 )
    => /\ request.body.walletAddress.type = "string"
       /\ LET a == request.body.walletAddress.str IN
            /\ a \in Whitelisted
            /\ challengeStore[a] # NoChallenge
            /\ response.code = challengeStore[a].code
            /\ response.message = StoredMessage(challengeStore, a)

\* The initiate replaced a challenge with another code.
C10_Witness ==
    \E a \in Whitelisted, i \in DOMAIN delivered :
        /\ i + 1 = Len(delivered)
        /\ delivered[i].route = "init-auth" /\ delivered[i].walletAddress = a
        /\ delivered[i + 1].route = "init-auth" /\ delivered[i + 1].walletAddress = a
        /\ delivered[i].message # delivered[i + 1].message
        /\ request.route = "init-auth"
        /\ response.message = delivered[i + 1].message
        /\ response.message = StoredMessage(challengeStore, a)

(***************************************************************************)
(* C11.  The outcomes Verified, Failed and Expired are terminal for a      *)
(* challenge instance.  When the handler that returned last was a verify   *)
(* for an address and the next to return is a verify for it too (no        *)
(* initiate has returned in between, so the instance is the same): after a *)
(* success the next verify neither succeeds nor answers 401; after a 401   *)
(* the next verify does not succeed; and a verify that finds an instance   *)
(* whose age has reached the TTL neither succeeds nor answers 401.         *)
(***************************************************************************)
C11_VerifiedTerminal ==
    \A a \in Identities :
        ( /\ request.route = "verify-auth"
          /\ IsString(request.body.walletAddress, a)
          /\ IsSuccess(response)
          /\ Returns("verify-auth")
          /\ IsString(request'.body.walletAddress, a) )
        => ~IsSuccess(response') /\ ~IsVerificationFailed(response')

C11_FailedTerminal ==
    \A a \in Identities :
        ( /\ request.route = "verify-auth"
          /\ IsString(request.body.walletAddress, a)
          /\ IsVerificationFailed(response)
          /\ Returns("verify-auth")
          /\ IsString(request'.body.walletAddress, a) )
        => ~IsSuccess(response')

C11_ExpiredTerminal ==
    \A a \in Identities :
        ( /\ Returns("verify-auth")
          /\ IsString(request'.body.walletAddress, a)
          /\ challengeStore[a] # NoChallenge
          /\ now >= challengeStore[a].timestamp + TTL )
        => ~IsSuccess(response') /\ ~IsVerificationFailed(response')

C11_TerminalOutcomes ==
    [][C11_VerifiedTerminal /\ C11_FailedTerminal /\ C11_ExpiredTerminal]_vars

(***************************************************************************)
(* C12.  Replay protection by timestamp validation: a signature made       *)
(* before the initiate that issues the challenge is never accepted.  Under *)
(* SpecPresigned every signature sent was made before the first initiate,  *)
(* so no verify succeeds.                                                  *)
(***************************************************************************)
C12_PresignedNeverAccepted ==
    request.route = "verify-auth" => ~IsSuccess(response)

(***************************************************************************)
(* C13.  Order of the failure conditions of verify.  For a request whose   *)
(* body yields its fields (a JSON object or a value without fields), the   *)
(* response is that of the first condition that applies, in the order      *)
(* InvalidInput (a field absent, not a string or empty), InvalidFormat     *)
(* (the address names no key), NoChallengeFound (nothing stored for the    *)
(* address), MalformedSignature (the signature is not base58),             *)
(* VerificationFailed (the bytes are not the owner's 64-byte signature     *)
(* over the stored message); and the first four leave the store as it was. *)
(***************************************************************************)
FieldGiven(v, empty) == v.type = "string" /\ v.str # empty

InvalidInputApplies(body) ==
    \/ ~FieldGiven(body.walletAddress, "")
    \/ ~FieldGiven(body.signature, Base58(NoBytes))

IsInvalidInput(resp) ==
    /\ resp.status = 400
    /\ resp.error \in {"walletAddress is required",
                       "Signature is required for ZK proof verification"}

IsInvalidFormat(resp) ==
    resp.status = 400 /\ resp.error = "Invalid wallet address format"

IsMalformedSignature(resp) ==
    resp.status = 400 /\ resp.error = "Invalid signature format"

C13_FirstApplies(body, store, resp, after) ==
    LET a == body.walletAddress.str
        sig == body.signature.str
    IN  IF InvalidInputApplies(body) THEN IsInvalidInput(resp) /\ after = store
        ELSE IF a \notin KeyStrings THEN IsInvalidFormat(resp) /\ after = store
        ELSE IF store[a] = NoChallenge THEN IsNoChallengeFound(resp) /\ after = store
        ELSE IF ~sig.b58 THEN IsMalformedSignature(resp) /\ after = store
        ELSE IF sig.bytes # Sign(a, StoredMessage(store, a))
             THEN IsVerificationFailed(resp)
             ELSE IsSuccess(resp)

C13_OrderStep ==
    ( /\ Returns("verify-auth")
      /\ request'.body.json \notin {"null", "invalid"} )
    => /\ response'.route = "verify-auth"
       /\ C13_FirstApplies(request'.body, challengeStore, response', challengeStore')

C13_VerifyFailureOrder == [][C13_OrderStep]_vars

\* Text that is not base58 sent for an address with nothing stored, while
\* another address has a challenge: answered 404.
C13_Witness ==
    \E a, b \in Whitelisted :
        /\ challengeStore[a] = NoChallenge
        /\ challengeStore[b] # NoChallenge
        /\ request = [route |-> "verify-auth",
                      body |-> Body(JString(a), JSignature(NotBase58))]
        /\ IsNoChallengeFound(response)

(***************************************************************************)
(* C14.  Order of the failure conditions of initiate.  For a request whose *)
(* body yields its fields, the response is that of the first condition     *)
(* that applies, in the order InvalidInput (the address absent, not a      *)
(* string or empty), InvalidFormat (it names no key), NotWhitelisted; and  *)
(* every initiate that does not answer 200, whatever its body, leaves the  *)
(* store as it was.                                                        *)
(***************************************************************************)
IsNotWhitelisted(resp) ==
    resp.status = 403 /\ resp.error = "Wallet address not whitelisted"

C14_FirstApplies(body, resp) ==
    LET a == body.walletAddress.str
    IN  IF ~FieldGiven(body.walletAddress, "") THEN IsInvalidInput(resp)
        ELSE IF a \notin KeyStrings THEN IsInvalidFormat(resp)
        ELSE IF a \notin Whitelisted THEN IsNotWhitelisted(resp)
        ELSE resp.status = 200

C14_OrderStep ==
    Returns("init-auth")
    => /\ response'.route = "init-auth"
       /\ request'.body.json \notin {"null", "invalid"}
            => C14_FirstApplies(request'.body, response')
       /\ response'.status # 200 => challengeStore' = challengeStore

C14_InitiateFailureOrder == [][C14_OrderStep]_vars

\* An initiate for an address that names no key answered 400 Invalid wallet
\* address format while a challenge is stored.
C14_Witness ==
    /\ request = [route |-> "init-auth",
                  body |-> Body(JString(MalformedAddress), JUndefinedSig)]
    /\ IsInvalidFormat(response)
    /\ \E a \in Whitelisted : challengeStore[a] # NoChallenge

(***************************************************************************)
(* C15.  InvalidInput for every body.  Whatever the body of the request (a *)
(* JSON object, a JSON value that is no object, text that is not JSON), an *)
(* initiate whose address field is absent or not a string answers 400      *)
(* InvalidInput, and so does a verify whose address field or signature     *)
(* field is absent or not a string.                                        *)
(***************************************************************************)
C15_InvalidInputForEveryBody ==
    /\ ( /\ request.route = "init-auth"
         /\ request.body.walletAddress.type # "string" )
       => IsInvalidInput(response)
    /\ ( /\ request.route = "verify-auth"
         /\ \/ request.body.walletAddress.type # "string"
            \/ request.body.signature.type # "string" )
       => IsInvalidInput(response)

(***************************************************************************)
(* C16.  A malformed signature is a typed failure.  A verify for an        *)
(* address with a stored challenge whose signature field is a non-empty    *)
(* string (an empty one is an absent field, see C13) answers 400 Invalid   *)
(* signature format when the string is not base58, and 401 Verification    *)
(* failed when it decodes to bytes that are not 64 long; in both cases the *)
(* answer is not 500 and the store is left as it was.                      *)
(***************************************************************************)
C16_MalformedStep ==
    \A a \in Identities :
        ( /\ Returns("verify-auth")
          /\ request'.body.json = "object"
          /\ IsString(request'.body.walletAddress, a)
          /\ challengeStore[a] # NoChallenge
          /\ FieldGiven(request'.body.signature, Base58(NoBytes))
          /\ LET sig == request'.body.signature.str
             IN  ~sig.b58 \/ sig.bytes.len # 64 )
        => /\ LET sig == request'.body.signature.str
              IN  IF ~sig.b58
                  THEN IsMalformedSignature(response')
                  ELSE IsVerificationFailed(response')
           /\ response'.route = "verify-auth"
           /\ response'.status # 500
           /\ challengeStore' = challengeStore

C16_MalformedSignatureTyped == [][C16_MalformedStep]_vars

\* Text that is not base58 sent for an address with a stored challenge:
\* answered 400 Invalid signature format, the challenge still stored.
C16_Witness ==
    \E a \in Whitelisted :
        /\ request = [route |-> "verify-auth",
                      body |-> Body(JString(a), JSignature(NotBase58))]
        /\ IsMalformedSignature(response)
        /\ challengeStore[a] # NoChallenge

(***************************************************************************)
(* C17.  Response shape of verify.  Every failure response of verify (400, *)
(* 404, 401) carries success = false and an error string, and every        *)
(* success response carries success = true, a token and a message.         *)
(***************************************************************************)
C17_VerifyResponseShape ==
    request.route = "verify-auth"
    => /\ response.status \in {400, 404, 401}
            => response.success = "false" /\ response.error # Absent
       /\ response.status = 200
            => /\ response.success = "true"
               /\ response.token # Absent
               /\ response.message # Absent

(***************************************************************************)
(* C18.  The canonical message is the same at issuance and verification.   *)
(* For every stored challenge, the message the initiate that stored it     *)
(* returned equals the message verify rebuilds from the stored code and    *)
(* timestamp and the address, and both are the three lines                 *)
(* 'Verify wallet ownership: {code}', 'Timestamp: {timestamp}',            *)
(* 'Address: {address}'.                                                   *)
(***************************************************************************)
LastInitiate(walletAddress) ==
    CHOOSE i \in Initiates(walletAddress) : \A j \in Initiates(walletAddress) : j <= i

C18_SameMessage ==
    \A a \in AddressStrings :
        challengeStore[a] # NoChallenge
        => LET code == challengeStore[a].code
               timestamp == challengeStore[a].timestamp
           IN  /\ Initiates(a) # {}
               /\ delivered[LastInitiate(a)].message = RebuiltMessage(code, timestamp, a)
               /\ RebuiltMessage(code, timestamp, a) =
                     "Verify wallet ownership: " \o code \o "\n"
                         \o "Timestamp: " \o ToString(timestamp) \o "\n"
                         \o "Address: " \o a

\* A challenge issued at time 1 is stored, and a verify has rebuilt its message
\* and checked a signature against it.
C18_Witness ==
    \E a \in Whitelisted :
        /\ challengeStore[a] # NoChallenge
        /\ challengeStore[a].timestamp = 1
        /\ request.route = "verify-auth"
        /\ IsString(request.body.walletAddress, a)
        /\ IsVerificationFailed(response)
        /\ delivered[LastInitiate(a)].message =
              "Verify wallet ownership: " \o challengeStore[a].code
                  \o "\nTimestamp: 1\nAddress: " \o a

(***************************************************************************)
(* C19.  Every key of the challenge store is a well-formed, whitelisted    *)
(* address, and a verify that returned success or a token was a verify     *)
(* for a whitelisted address.                                              *)
(***************************************************************************)
C19_StoreKeysWhitelisted ==
    /\ \A a \in DOMAIN challengeStore :
          challengeStore[a] # NoChallenge
          => isValidWalletAddress(a) /\ includes(WHITELIST, a)
    /\ ( request.route = "verify-auth" /\ GrantsToken(response) )
       => /\ request.body.walletAddress.type = "string"
          /\ includes(WHITELIST, request.body.walletAddress.str)

\* A verify has succeeded for one whitelisted address while a challenge is
\* stored for the other.
C19_Witness ==
    \E a, b \in Whitelisted :
        /\ a # b
        /\ request.route = "verify-auth"
        /\ IsString(request.body.walletAddress, a)
        /\ IsSuccess(response)
        /\ challengeStore[b] # NoChallenge

(***************************************************************************)
(* C20.  Isolation of the addresses.  A step changes the entry of an       *)
(* address only when it is the return of a successful initiate for that    *)
(* address, which puts the challenge of its response, or of a successful   *)
(* verify for that address, which deletes the entry; a handler returning   *)
(* for one address leaves the entry of every other address as it was; and  *)
(* a step in which no POST handler returns (the health probe among them)   *)
(* changes no entry.                                                       *)
(***************************************************************************)
C20_OnlyPutAndDelete ==
    \A b \in DOMAIN challengeStore :
        challengeStore'[b] # challengeStore[b]
        => /\ IsString(request'.body.walletAddress, b)
           /\ \/ /\ Returns("init-auth")
                 /\ response'.status = 200
                 /\ challengeStore'[b] = Challenge(response'.code, now)
              \/ /\ Returns("verify-auth")
                 /\ IsSuccess(response')
                 /\ challengeStore'[b] = NoChallenge

C20_OthersUntouched ==
    \A a, b \in DOMAIN challengeStore :
        ( /\ \E route \in Routes : Returns(route)
          /\ IsString(request'.body.walletAddress, a)
          /\ a # b )
        => challengeStore'[b] = challengeStore[b]

C20_ProbeChangesNothing ==
    ( ~ \E route \in Routes : Returns(route) ) => challengeStore' = challengeStore

\* (A step that leaves the store as it was satisfies all three.)
C20_PerIdentityIsolation ==
    [][ challengeStore' # challengeStore
        => C20_OnlyPutAndDelete /\ C20_OthersUntouched /\ C20_ProbeChangesNothing ]_vars

\* The health probe has answered while a challenge is stored for one
\* whitelisted address, after a verify for the other has succeeded.
C20_Witness ==
    \E a, b \in Whitelisted :
        /\ a # b
        /\ request.route = "health"
        /\ response.status = 200
        /\ challengeStore[a] # NoChallenge
        /\ Successes(b) # {}

(***************************************************************************)
(* The browser client: the handlers of src/public/client.ts, each from one *)
(* await to the next.  A fetch reaches the server's handler at once        *)
(* (Receive); the server answers it in a step of its own, and the client   *)
(* continues in a later step, so responses and events interleave freely.   *)
(* An `alert` followed by a return leaves the state as it was and is the   *)
(* guard of the action.  The submit listener is on the form and the click  *)
(* listener of verifyBtn on the button, which dispatches no click while it *)
(* is disabled.                                                            *)
(***************************************************************************)
MinAddressLength == 32
MaxAddressLength == 44

RECURSIVE trimStart(_)
trimStart(s) ==
    IF Len(s) > 0 /\ SubSeq(s, 1, 1) = " " THEN trimStart(SubSeq(s, 2, Len(s))) ELSE s

RECURSIVE trimEnd(_)
trimEnd(s) ==
    IF Len(s) > 0 /\ SubSeq(s, Len(s), Len(s)) = " "
    THEN trimEnd(SubSeq(s, 1, Len(s) - 1))
    ELSE s

\* walletInput.value.trim()
trim(s) == trimEnd(trimStart(s))

\* What the user types into walletInput.
TypedAddresses ==
    Whitelisted \cup { UnlistedAddress, MalformedAddress, "", "  ", " " \o WHITELIST[1] \o " " }

\* The keys a wallet of the user signs with.
WalletKeys == KeyStrings

\* fetch(...): the request goes out and reaches its handler.
fetch(route) ==
    /\ fetches < MaxFetches
    /\ fetches' = fetches + 1
    /\ Receive(route)

\* response.ok
ok(resp) == resp.status >= 200 /\ resp.status <= 299

\* showStep(stepNumber): step 3 comes up with both of its messages hidden.
showStep(stepNumber, message) == IF stepNumber = 3 THEN "none" ELSE message

\* The form is submitted: the handler runs to `await initAuth(walletAddress)`,
\* whose fetch goes out.
Submit(typed) ==
    LET walletAddress == trim(typed) IN
    /\ walletAddress # ""
    /\ Len(walletAddress) >= MinAddressLength
    /\ Len(walletAddress) <= MaxAddressLength
    /\ disabled' = [disabled EXCEPT !.initBtn = TRUE]
    /\ submits' = Append(submits, Submitted(walletAddress))
    /\ fetch("init-auth")
    /\ UNCHANGED <<appState, step, shown, verifying>>

\* The server answers the init-auth request of a suspended submit handler.
ServeInitAuth(k, code) ==
    /\ submits[k].stage = "sent"
    /\ InitAuth(Body(JString(submits[k].walletAddress), JUndefinedSig), code)
    /\ submits' = [submits EXCEPT ![k] = [@ EXCEPT !.stage = "responded",
                                                    !.response = response']]
    /\ UNCHANGED <<appState, step, shown, disabled, verifying, fetches>>

\* The sequence without its k-th element.
Without(seq, k) == SubSeq(seq, 1, k - 1) \o SubSeq(seq, k + 1, Len(seq))

\* The response arrives and the submit handler resumes: on a response that is
\* not ok initAuth throws and the handler alerts.
SubmitResponse(k) ==
    LET walletAddress == submits[k].walletAddress
        result == submits[k].response
    IN  /\ submits[k].stage = "responded"
        /\ IF ok(result)
           THEN /\ appState' = [appState EXCEPT !.walletAddress = walletAddress,
                                                !.challengeCode = result.code,
                                                !.challengeMessage = result.message]
                /\ step' = 2
                /\ shown' = showStep(2, shown)
           ELSE UNCHANGED <<appState, step, shown>>
        /\ disabled' = [disabled EXCEPT !.initBtn = FALSE]
        /\ submits' = Without(submits, k)
        /\ UNCHANGED <<verifying, fetches, serverVars>>

\* verifyBtn is clicked: the handler runs to `await signMessage(...)`, or, with
\* no challenge message, to the end of its catch and finally.
VerifyClick ==
    /\ ~disabled.verifyBtn
    /\ appState.walletAddress # ""
    /\ appState.challengeCode # ""
    /\ IF appState.challengeMessage = Absent
       THEN /\ step' = 3
            /\ shown' = "error"
            /\ UNCHANGED <<disabled, verifying>>
       ELSE /\ disabled' = [disabled EXCEPT !.verifyBtn = TRUE]
            /\ verifying' = [NotVerifying EXCEPT !.stage = "signing",
                                                 !.message = appState.challengeMessage]
            /\ UNCHANGED <<step, shown>>
    /\ UNCHANGED <<appState, submits, fetches, serverVars>>

\* The wallet has signed: the handler resumes and runs to
\* `await verifyAuth(appState.walletAddress, signature)`, whose fetch goes out.
SignResolves(signer) ==
    LET signature == Base58(Sign(signer, verifying.message)) IN
    /\ verifying.stage = "signing"
    /\ verifying' = [verifying EXCEPT !.stage = "sent",
                                      !.body = Body(JString(appState.walletAddress),
                                                    JSignature(signature))]
    /\ fetch("verify-auth")
    /\ UNCHANGED <<appState, step, shown, disabled, submits>>

\* No wallet, or the user declines to sign: signMessage throws, and the handler
\* runs its catch and finally.
SignRejects ==
    /\ verifying.stage = "signing"
    /\ step' = 3
    /\ shown' = "error"
    /\ disabled' = [disabled EXCEPT !.verifyBtn = FALSE]
    /\ verifying' = NotVerifying
    /\ UNCHANGED <<appState, submits, fetches, serverVars>>

\* The server answers the verify-auth request.
ServeVerifyAuth(suffix) ==
    /\ verifying.stage = "sent"
    /\ VerifyAuth(verifying.body, suffix)
    /\ verifying' = [verifying EXCEPT !.stage = "responded", !.response = response']
    /\ UNCHANGED <<appState, step, shown, disabled, submits, fetches>>

\* result.success && result.token
Succeeded(result) == result.success = "true" /\ result.token \notin {Absent, ""}

\* showSuccess(token) assigns appState.sessionToken.
showSuccess(state, token) == [state EXCEPT !.sessionToken = token]

\* The response arrives and the click handler resumes: on a response that is
\* not ok verifyAuth throws and the catch shows the error.
VerifyResponse ==
    LET result == verifying.response IN
    /\ verifying.stage = "responded"
    /\ step' = 3
    /\ IF ok(result) /\ Succeeded(result)
       THEN /\ shown' = "success"
            /\ appState' = showSuccess(appState, result.token)
       ELSE /\ shown' = "error"
            /\ UNCHANGED appState
    /\ disabled' = [disabled EXCEPT !.verifyBtn = FALSE]
    /\ verifying' = NotVerifying
    /\ UNCHANGED <<submits, fetches, serverVars>>

\* backBtn: showStep(1)
Back ==
    /\ step' = 1
    /\ shown' = showStep(1, shown)
    /\ UNCHANGED <<appState, disabled, submits, verifying, fetches, serverVars>>

\* retryBtn: showStep(2)
Retry ==
    /\ step' = 2
    /\ shown' = showStep(2, shown)
    /\ UNCHANGED <<appState, disabled, submits, verifying, fetches, serverVars>>

\* restartBtn and restartErrorBtn: resetApp()
Restart ==
    /\ appState' = resetApp
    /\ step' = 1
    /\ shown' = showStep(1, shown)
    /\ UNCHANGED <<disabled, submits, verifying, fetches, serverVars>>

\* The page and the server it talks to.
NextClient ==
    \/ Tick /\ UNCHANGED clientVars
    \/ \E typed \in TypedAddresses : Submit(typed)
    \/ \E k \in DOMAIN submits, code \in generateChallengeCode : ServeInitAuth(k, code)
    \/ \E k \in DOMAIN submits : SubmitResponse(k)
    \/ VerifyClick
    \/ \E signer \in WalletKeys : SignResolves(signer)
    \/ SignRejects
    \/ \E suffix \in RandomSuffixes : ServeVerifyAuth(suffix)
    \/ VerifyResponse
    \/ Back
    \/ Retry
    \/ Restart

SpecClient == Init /\ [][NextClient]_vars

(***************************************************************************)
(* C21.  In the browser client, across any sequence of submit, verify,     *)
(* back, retry and restart events (overlapping in-flight init-auth         *)
(* responses included), a verify-auth request is sent only when appState   *)
(* holds a walletAddress, a challengeCode and a challengeMessage, and      *)
(* these three always come from one and the same successful init-auth      *)
(* response; resetApp clears all of them and the session token; and        *)
(* appState.sessionToken is non-null only after a verify-auth response     *)
(* with success true and a token.                                          *)
(***************************************************************************)
\* The state holds an address, a code and a message.
HoldsChallenge(state) ==
    /\ state.walletAddress # ""
    /\ state.challengeCode # ""
    /\ state.challengeMessage # Absent

\* The state holds none of them.
HoldsNothing(state) ==
    /\ state.walletAddress = ""
    /\ state.challengeCode = ""
    /\ state.challengeMessage = Absent

\* The three were answered together: the server delivered a successful
\* init-auth response to this address with this message, which is the message
\* of this code.
FromOneResponse(state) ==
    \E i \in Initiates(state.walletAddress) :
        /\ delivered[i].message = state.challengeMessage
        /\ \E t \in Times :
              Message(state.challengeCode, t, state.walletAddress) = state.challengeMessage

\* The step sends a verify-auth request.
SendsVerifyAuth ==
    fetches' = fetches + 1 /\ awaiting'["verify-auth"] = awaiting["verify-auth"] + 1

C21_SentOnlyWithChallenge ==
    SendsVerifyAuth => HoldsChallenge(appState) /\ FromOneResponse(appState)

C21_AlwaysFromOneResponse ==
    ~HoldsNothing(appState') => HoldsChallenge(appState') /\ FromOneResponse(appState)'

\* A step that empties one of the three is resetApp's, and empties everything.
C21_ResetClears ==
    ( \/ appState.walletAddress # "" /\ appState'.walletAddress = ""
      \/ appState.challengeCode # "" /\ appState'.challengeCode = ""
      \/ appState.challengeMessage # Absent /\ appState'.challengeMessage = Absent )
    => HoldsNothing(appState') /\ appState'.sessionToken = Absent

C21_TokenOnlyAfterSuccess ==
    ( /\ appState'.sessionToken # appState.sessionToken
      /\ appState'.sessionToken # Absent )
    => /\ verifying.stage = "responded"
       /\ IsSuccess(verifying.response)
       /\ appState'.sessionToken = verifying.response.token

C21_ClientStateConsistent ==
    [][ /\ C21_SentOnlyWithChallenge
        /\ C21_AlwaysFromOneResponse
        /\ C21_ResetClears
        /\ C21_TokenOnlyAfterSuccess ]_vars

====
